---- MODULE Spec2Model ----
(***************************************************************************)
(* The chat endpoint of jung-chat (src/src/app/api/chat/route.ts): one     *)
(* POST request from the parsing of its body to its single response, with  *)
(* the three external services (embedding, vector search, generation) as   *)
(* the environment.                                                        *)
(*                                                                         *)
(* Conventions.                                                            *)
(*  - A JavaScript string is a sequence of one-character strings, so that  *)
(*    concatenation, joining and splitting are computed, not assumed.      *)
(*  - A JSON object is a record; an absent key is a name that is not in    *)
(*    the record's DOMAIN.                                                 *)
(*  - A nullable string (Source.chapter) is Null or Some(s).               *)
(*  - A similarity score is an integer number of hundredths: 71 stands for *)
(*    0.71, and the threshold 0.7 is 70.                                   *)
(***************************************************************************)
EXTENDS Integers, Sequences, FiniteSets, TLC

VARIABLES
    pc,            \* position of the request in POST
    body,          \* the request body as received
    pending,       \* the external calls issued and not yet returned
    log,           \* external calls and their returns, in order
    error,         \* what the catch block caught (Null until then)
    allSources,    \* POST's allSources
    sources,       \* POST's sources
    context,       \* POST's context
    systemPrompt,  \* POST's systemPrompt
    claudeMessages,\* POST's claudeMessages
    responses,     \* the responses POST has returned
    others,        \* the other invocations of POST, suspended at an await
    index,         \* the stored chunks the vector index holds
    explorations,  \* Home's explorations
    input,         \* Home's input
    isLoading,     \* Home's isLoading
    expandedId,    \* Home's expandedId
    fetching,      \* the fetch("/api/chat") of handleExplore in flight
    now,           \* Date.now()
    console        \* what console.error has been given

\* the locals of the running invocation of POST
requestVars == <<pc, body, pending, log, error, allSources, sources, context,
                 systemPrompt, claudeMessages, responses>>

\* the state of the page
pageVars == <<explorations, input, isLoading, expandedId, fetching, now,
              console>>

\* what an invocation of POST never writes
outside == <<others, index, pageVars>>

vars == <<requestVars, outside>>

-----------------------------------------------------------------------------
(* Values *)

Null == <<>>
Some(s) == <<s>>

\* bounds of the enumerated inputs: prior turns of a request body, and the
\* length of the result lists the filter is applied to on its own
MaxTurns == 2
MaxResults == 4

\* string constants of route.ts
QueryPrefix == <<"q", "u", "e", "r", "y", ":", " ">>
UndefinedText == <<"u", "n", "d", "e", "f", "i", "n", "e", "d">>
UnknownTitle == <<"U", "n", "k", "n", "o", "w", "n">>
BlockDelimiter == <<"\n", "\n", "-", "-", "-", "\n", "\n">>
LineBreak == <<"\n">>
ChapterSeparator == <<",", " ">>
SourcesHeading == <<"S", "o", "u", "r", "c", "e", "s", ":", "\n">>
\* the fixed text of the system prompt up to the interpolation (one element)
PromptRules ==
    <<"You're a knowledgeable guide to Jung's psychology. Be concise and conversational.\n\nRules:\n- Keep responses to 2-4 sentences max\n- Be direct, not academic\n- Only cite [1], [2] etc. when directly quoting Jung's words\n- Don't cite for general concepts - only for specific quotes\n- If asked to elaborate, you can go deeper\n\n">>
\* the no-context fallback instruction (one element)
NoSourcesInstruction ==
    <<"No highly relevant sources found - answer from general knowledge of Jung.">>
GenericError == "Failed to process request"
TopK == 6
Threshold == 70
MaxSources == 3
ModelId == "claude-sonnet-4-20250514"
MaxTokens == 550

-----------------------------------------------------------------------------
(* String helpers *)

Digit(d) == <<"0", "1", "2", "3", "4", "5", "6", "7", "8", "9">>[d + 1]

\* String(n) of a non-negative integer, as a template literal renders it
RECURSIVE NumberToString(_)
NumberToString(n) ==
    IF n < 10 THEN <<Digit(n)>>
    ELSE NumberToString(n \div 10) \o <<Digit(n % 10)>>

\* Array.prototype.join
RECURSIVE Join(_, _)
Join(parts, sep) ==
    IF Len(parts) = 0 THEN <<>>
    ELSE IF Len(parts) = 1 THEN parts[1]
    ELSE parts[1] \o sep \o Join(Tail(parts), sep)

\* JavaScript truthiness of a value that is a string when present
Truthy(obj, key) == key \in DOMAIN obj /\ obj[key] # <<>>

\* Array.prototype.slice(start, end) for 0 <= start <= end
Slice(arr, start, end) ==
    SubSeq(arr, start + 1, IF end < Len(arr) THEN end ELSE Len(arr))

\* a template literal's rendering of a value that may be undefined
TemplateString(obj, key) == IF key \in DOMAIN obj THEN obj[key] ELSE UndefinedText

-----------------------------------------------------------------------------
(* The pure functions of route.ts *)

\* match.metadata?.<key> is present and truthy
MetadataHas(match, key) ==
    "metadata" \in DOMAIN match /\ Truthy(match.metadata, key)

\* a mapping without the defaults: absent values stay empty
MatchToSource_NoDefaults(match) ==
    [work_title |-> IF MetadataHas(match, "work_title")
                    THEN match.metadata.work_title ELSE <<>>,
     chapter    |-> IF MetadataHas(match, "chapter")
                    THEN Some(match.metadata.chapter) ELSE Null,
     text       |-> IF MetadataHas(match, "text")
                    THEN match.metadata.text ELSE <<>>,
     score      |-> IF "score" \in DOMAIN match THEN match.score ELSE 100]

\* the callback of results.matches?.map in queryPinecone
MatchToSource(match) ==
    [work_title |-> IF MetadataHas(match, "work_title")
                    THEN match.metadata.work_title ELSE UnknownTitle,
     chapter    |-> IF MetadataHas(match, "chapter")
                    THEN Some(match.metadata.chapter) ELSE Null,
     text       |-> IF MetadataHas(match, "text")
                    THEN match.metadata.text ELSE <<>>,
     score      |-> IF "score" \in DOMAIN match /\ match.score # 0
                    THEN match.score ELSE 0]

\* results.matches?.map(...) || []
MatchesToSources(results) ==
    IF "matches" \in DOMAIN results
    THEN [k \in 1..Len(results.matches) |-> MatchToSource(results.matches[k])]
    ELSE <<>>

\* source.chapter is truthy
HasChapter(source) == source.chapter # Null /\ source.chapter[1] # <<>>

\* the callback of formatSourcesForPrompt
PromptBlock(source, i) ==
    LET citation ==
            IF HasChapter(source)
            THEN <<"[">> \o NumberToString(i + 1) \o <<"]", " ">>
                 \o source.work_title \o ChapterSeparator \o source.chapter[1]
            ELSE <<"[">> \o NumberToString(i + 1) \o <<"]", " ">>
                 \o source.work_title
    IN  citation \o LineBreak \o source.text

\* sources.map((source, i) => ...).join("\n\n---\n\n"), i from 0
formatSourcesForPrompt(srcs) ==
    Join([k \in 1..Len(srcs) |-> PromptBlock(srcs[k], k - 1)], BlockDelimiter)

\* a citation line numbered from the 0-based index
CitationLine_ZeroBased(source, i) ==
    LET chapter == IF HasChapter(source)
                   THEN ChapterSeparator \o source.chapter[1] ELSE <<>>
    IN  <<"[">> \o NumberToString(i) \o <<"]", " ">>
        \o source.work_title \o chapter

\* the callback of formatSourcesForResponse
CitationLine(source, i) ==
    LET chapter == IF HasChapter(source)
                   THEN ChapterSeparator \o source.chapter[1] ELSE <<>>
    IN  <<"[">> \o NumberToString(i + 1) \o <<"]", " ">>
        \o source.work_title \o chapter

\* sources.map((source, i) => ...).join("\n"), i from 0
formatSourcesForResponse(srcs) ==
    Join([k \in 1..Len(srcs) |-> CitationLine(srcs[k], k - 1)], LineBreak)

\* a filter that also keeps a score equal to the threshold
AboveThreshold_AtLeast(s) == s.score >= Threshold

\* the predicate of allSources.filter
AboveThreshold(s) == s.score > Threshold

\* a filter that truncates before it applies the threshold
RelevanceFilter_TruncateFirst(results) ==
    SelectSeq(Slice(results, 0, MaxSources), AboveThreshold)

\* a filter that hands the kept results over weakest first
RelevanceFilter_Ascending(results) ==
    LET kept == Slice(SelectSeq(results, AboveThreshold), 0, MaxSources)
    IN  [k \in 1..Len(kept) |-> kept[Len(kept) + 1 - k]]

\* allSources.filter(s => s.score > 0.7).slice(0, 3)
RelevanceFilter(results) == Slice(SelectSeq(results, AboveThreshold), 0, MaxSources)

\* a system prompt without the no-context branch
BuildSystemPrompt_NoFallback(srcs, ctx) == PromptRules \o SourcesHeading \o ctx

\* the template literal of systemPrompt
BuildSystemPrompt(srcs, ctx) ==
    PromptRules \o (IF Len(srcs) > 0 THEN SourcesHeading \o ctx
                    ELSE NoSourcesInstruction)

\* a conversation with the prior turns newest first
BuildMessages_NewestFirst(messages, b) ==
    [k \in 1..Len(messages) |->
        [role |-> messages[Len(messages) + 1 - k].role,
         content |-> messages[Len(messages) + 1 - k].content]]
    \o << IF "query" \in DOMAIN b
          THEN [role |-> "user", content |-> b.query]
          ELSE [role |-> "user"] >>

\* messages.map(msg => ({role, content})) followed by push of the query
BuildMessages(messages, b) ==
    [k \in 1..Len(messages) |->
        [role |-> messages[k].role, content |-> messages[k].content]]
    \o << IF "query" \in DOMAIN b
          THEN [role |-> "user", content |-> b.query]
          ELSE [role |-> "user"] >>

-----------------------------------------------------------------------------
(* The environment: request bodies and what the external services return *)

\* prior conversation turns, alternating user / assistant
Turn(k) == IF k % 2 = 1 THEN [role |-> "user", content |-> <<"h">>]
           ELSE [role |-> "assistant", content |-> <<"a", "\n", "b">>]

Conversations == { [k \in 1..n |-> Turn(k)] : n \in 0..MaxTurns }

\* query strings: empty, whitespace-only, and two ordinary ones
Queries == { <<>>, <<" ">>, <<"q">>, <<"w", "h", "y", "?">> }

\* the request body `null`: request.json() gives null, which cannot be
\* destructured
JsonNull == [json |-> "null"]

\* request bodies: a body request.json() cannot parse, the body null, and
\* the objects with or without the keys query and messages
Bodies ==
    { [malformed |-> TRUE], JsonNull }
    \cup { [query |-> q, messages |-> m] : q \in Queries, m \in Conversations }
    \cup { [query |-> q] : q \in Queries }
    \cup { [messages |-> m] : m \in Conversations }
    \cup { [other |-> TRUE] }

\* the stored chunks that can match a query, by descending score; the last
\* one is returned without a score
StoredMatches ==
    << [score |-> 90, metadata |-> [work_title |-> <<"A">>, chapter |-> <<"I">>,
                                     text |-> <<"t">>]],
       [score |-> 82, metadata |-> [work_title |-> <<"B">>,
                                     text |-> <<"u", "\n", "v">>]],
       [score |-> 75, metadata |-> [chapter |-> <<"I", "I">>, text |-> <<"t">>]],
       [score |-> 71, metadata |-> [work_title |-> <<"A">>, chapter |-> <<>>]],
       [score |-> 71],
       [score |-> 70, metadata |-> [work_title |-> <<"B">>, chapter |-> <<"I">>,
                                     text |-> <<"t">>]],
       [score |-> 65, metadata |-> [work_title |-> <<"A">>, text |-> <<"u">>]],
       [score |-> 60, metadata |-> [work_title |-> <<>>, text |-> <<"t">>]],
       [score |-> 40, metadata |-> [work_title |-> <<"B">>, text |-> <<"t">>]],
       [score |-> -20, metadata |-> [work_title |-> <<"A">>, text |-> <<"t">>]],
       [metadata |-> [work_title |-> <<"B">>, chapter |-> <<"I">>,
                      text |-> <<"t">>]] >>

\* the k-th smallest member of a set of indices
Nth(I, k) == CHOOSE i \in I : Cardinality({j \in I : j < i}) = k - 1

\* the stored matches with index in I, in stored (descending-score) order
MatchesAt(I) == [k \in 1..Cardinality(I) |-> StoredMatches[Nth(I, k)]]

\* what index.query({vector, topK, includeMetadata}) resolves to: up to topK
\* matches by descending score, or a response without a matches list
QueryResponses(topK) ==
    { [matches |-> MatchesAt(I)] :
        I \in { J \in SUBSET index : Cardinality(J) <= topK } }
    \cup { [namespace |-> <<>>] }

\* what fetch(".../embed") does: an OK response, a non-OK response, a
\* network error
EmbedOutcomes == { "ok", "not_ok", "rejected" }

\* the vector of an embedded text, opaque
Embedding(text) == [values_of |-> text]

\* the value of a property that an object does not have
Undefined == [undefined |-> TRUE]

\* what response.json() of an OK embedding response gives: the vector in
\* data[0].values, a first element without values, an empty data list, no
\* data at all, or no JSON
EmbedBodies(text) ==
    { [data |-> << [values |-> Embedding(text)] >>],
      [data |-> << [vector_type |-> "dense"] >>],
      [data |-> << >>],
      [model |-> "multilingual-e5-large"],
      [malformed |-> TRUE] }

\* what `const data = await response.json(); return data.data[0].values`
\* throws for such a body, Null when it returns
EmbedBodyError(data) ==
    IF "malformed" \in DOMAIN data THEN Some("SyntaxError")
    ELSE IF "data" \notin DOMAIN data \/ Len(data.data) = 0 THEN Some("TypeError")
    ELSE Null

\* data.data[0].values
EmbedBodyValues(data) ==
    IF "values" \in DOMAIN data.data[1] THEN data.data[1].values ELSE Undefined

\* the options queryPinecone passes to index.query
QueryOptions(embedding) ==
    IF embedding = Undefined
    THEN [topK |-> TopK, includeMetadata |-> TRUE]
    ELSE [vector |-> embedding, topK |-> TopK, includeMetadata |-> TRUE]

\* a generateQueryEmbedding without the response.ok check
EmbedThrows_NoStatusCheck(outcome) == outcome = "rejected"

\* generateQueryEmbedding throws: fetch rejected, or `if (!response.ok) throw`
EmbedThrows(outcome) == outcome = "rejected" \/ outcome = "not_ok"

\* what generateQueryEmbedding throws
EmbedError(outcome) ==
    IF outcome = "not_ok" THEN "Embedding API error" ELSE "fetch failed"

\* what anthropic.messages.create resolves to (content variants), or throws
GenerateResponses ==
    { [content |-> << [type |-> "text", text |-> <<"J", "[", "1", "]">>] >>],
      [content |-> << [type |-> "text", text |-> <<>>] >>],
      [content |-> << [type |-> "tool_use"] >>],
      [content |-> << >>] }

-----------------------------------------------------------------------------
(* POST *)

CallEvent(svc, request) == [event |-> "call", service |-> svc, request |-> request]
\* a call's return: `result` is what it resolved to, or what it threw
ReturnEvent(svc, ok, result) ==
    [event |-> "return", service |-> svc, ok |-> ok, result |-> result]
\* fetch has resolved with a response whose body is still to be read
ResponseEvent(svc, ok) == [event |-> "response", service |-> svc, ok |-> ok]

ErrorResponse == [status |-> 500, body |-> [error |-> GenericError]]

\* a catch block that reports the cause and what was retrieved so far
Catch_Leaky(thrown) ==
    /\ pc' = "FAILED"
    /\ error' = Some(thrown)
    /\ responses' = Append(responses,
          [status |-> 500, body |-> [error |-> thrown, rawSources |-> sources]])

\* a catch block that logs the error and answers nothing
Catch_Swallow(thrown) ==
    /\ error' = Some(thrown)
    /\ UNCHANGED <<pc, responses>>

\* the catch block of POST: log the error, answer with the generic error
Catch(thrown) ==
    /\ pc' = "FAILED"
    /\ error' = Some(thrown)
    /\ responses' = Append(responses, ErrorResponse)

\* the page as Home's useState calls leave it, no request in flight
PageInitAt(clock) ==
    /\ explorations = <<>>
    /\ input = <<>>
    /\ isLoading = FALSE
    /\ expandedId = Null
    /\ fetching = Null
    /\ now = clock
    /\ console = <<>>

PageInit == PageInitAt(0)

\* every stored chunk is in the index
FullIndex == 1..Len(StoredMatches)

\* an index of four chunks: the best one, two around the threshold, and
\* the one returned without a score
SmallIndex == {1, 4, 6, 11}

\* POST has been invoked with one of the bodies; chunks is what the index holds
InitWith(bodies, chunks) ==
    /\ pc = "RECEIVED"
    /\ body \in bodies
    /\ others = <<>>
    /\ index = chunks
    /\ PageInit
    /\ pending = {}
    /\ log = <<>>
    /\ error = Null
    /\ allSources = <<>>
    /\ sources = <<>>
    /\ context = <<>>
    /\ systemPrompt = <<>>
    /\ claudeMessages = <<>>
    /\ responses = <<>>

Init == InitWith(Bodies, FullIndex)

\* the marker put before a passage when the corpus is indexed
PassagePrefix == <<"p", "a", "s", "s", "a", "g", "e", ":", " ">>

\* an embedding input marked as a passage
EmbedText_AsPassage(b) == PassagePrefix \o TemplateString(b, "query")

\* an embedding input that also depends on the conversation so far
EmbedText_WithHistory(b) ==
    QueryPrefix \o TemplateString(b, "query")
        \o (IF "messages" \in DOMAIN b
            THEN NumberToString(Len(b.messages)) ELSE <<>>)

\* the input of the embedding request: `query: ${query}`
EmbedText(b) == QueryPrefix \o TemplateString(b, "query")

\* a POST that starts the search without awaiting the embedding
Receive_NoAwait ==
    /\ pc = "RECEIVED"
    /\ "malformed" \notin DOMAIN body
    /\ body # JsonNull
    /\ pc' = "EMBEDDING"
    /\ pending' = pending \cup {"embed", "search"}
    /\ log' = log \o << CallEvent("embed",
                            [text |-> EmbedText(body)]),
                        CallEvent("search",
                            [vector |-> Embedding(<<>>), topK |-> TopK,
                             includeMetadata |-> TRUE]) >>
    /\ UNCHANGED <<body, error, responses, allSources, sources, context,
                   systemPrompt, claudeMessages>>
    /\ UNCHANGED outside

\* await request.json(), which rejects with a SyntaxError on a body that is
\* not JSON, and the destructuring, which throws a TypeError on null; then
\* queryPinecone(query, 6) runs into generateQueryEmbedding, which issues
\* the embedding request
Receive ==
    /\ pc = "RECEIVED"
    /\ IF "malformed" \in DOMAIN body \/ body = JsonNull
       THEN /\ Catch(IF body = JsonNull THEN "TypeError" ELSE "SyntaxError")
            /\ UNCHANGED <<pending, log>>
       ELSE /\ pc' = "EMBEDDING"
            /\ pending' = pending \cup {"embed"}
            /\ log' = Append(log, CallEvent("embed",
                         [text |-> EmbedText(body)]))
            /\ UNCHANGED <<error, responses>>
    /\ UNCHANGED <<body, allSources, sources, context, systemPrompt, claudeMessages>>
    /\ UNCHANGED outside

\* fetch of the embedding request settles: a rejection or a non-OK response
\* is thrown by generateQueryEmbedding; an OK response has its body awaited
EmbedReturn ==
    /\ pc = "EMBEDDING"
    /\ "embed" \in pending
    /\ log[Len(log)].event = "call"
    /\ \E outcome \in EmbedOutcomes :
         IF outcome = "rejected"
         THEN /\ pending' = pending \ {"embed"}
              /\ log' = Append(log, ReturnEvent("embed", FALSE, outcome))
              /\ UNCHANGED <<pc, error, responses>>
         ELSE IF EmbedThrows(outcome)
         THEN /\ pending' = pending \ {"embed"}
              /\ log' = log \o << ResponseEvent("embed", outcome = "ok"),
                                  ReturnEvent("embed", FALSE, outcome) >>
              /\ UNCHANGED <<pc, error, responses>>
         ELSE /\ log' = Append(log, ResponseEvent("embed", outcome = "ok"))
              /\ UNCHANGED <<pc, pending, error, responses>>
    /\ UNCHANGED <<body, allSources, sources, context, systemPrompt, claudeMessages>>
    /\ UNCHANGED outside

\* response.json() of the embedding response settles and
\* generateQueryEmbedding returns data.data[0].values, or throws
EmbedBody ==
    /\ pc = "EMBEDDING"
    /\ "embed" \in pending
    /\ log[Len(log)].event = "response"
    /\ pending' = pending \ {"embed"}
    /\ \E data \in EmbedBodies(log[Len(log) - 1].request.text) :
         IF EmbedBodyError(data) # Null
         THEN /\ log' = Append(log, ReturnEvent("embed", FALSE,
                                                EmbedBodyError(data)[1]))
              /\ UNCHANGED <<pc, error, responses>>
         ELSE /\ pc' = "SEARCHING"
              /\ log' = Append(log, ReturnEvent("embed", TRUE,
                                                EmbedBodyValues(data)))
              /\ UNCHANGED <<error, responses>>
    /\ UNCHANGED <<body, allSources, sources, context, systemPrompt, claudeMessages>>
    /\ UNCHANGED outside

\* queryPinecone resumes with the embedding and issues index.query
SearchCall ==
    /\ pc = "SEARCHING"
    /\ pending = {}
    /\ log[Len(log)].event = "return" /\ log[Len(log)].service = "embed"
    /\ pending' = {"search"}
    /\ log' = Append(log, CallEvent("search",
                                    QueryOptions(log[Len(log)].result)))
    /\ UNCHANGED <<pc, body, error, responses, allSources, sources, context,
                   systemPrompt, claudeMessages>>
    /\ UNCHANGED outside

\* a queryPinecone that queries the index again when the query failed
SearchReturn_Retry ==
    /\ pc = "SEARCHING"
    /\ "search" \in pending
    /\ \/ \E results \in QueryResponses(log[Len(log)].request.topK) :
            /\ pc' = "FILTERING"
            /\ pending' = pending \ {"search"}
            /\ allSources' = MatchesToSources(results)
            /\ log' = Append(log, ReturnEvent("search", TRUE, results))
            /\ UNCHANGED <<error, responses>>
       \/ /\ log' = log \o << ReturnEvent("search", FALSE, "PineconeError"),
                               log[Len(log)] >>
          /\ UNCHANGED <<pc, pending, error, responses, allSources>>
    /\ UNCHANGED <<body, sources, context, systemPrompt, claudeMessages>>
    /\ UNCHANGED <<others, index, pageVars>>

\* a queryPinecone that answers a failed query with no results
SearchReturn_SwallowError ==
    /\ pc = "SEARCHING"
    /\ "search" \in pending
    /\ pending' = pending \ {"search"}
    /\ pc' = "FILTERING"
    /\ \/ \E results \in QueryResponses(log[Len(log)].request.topK) :
            /\ allSources' = MatchesToSources(results)
            /\ log' = Append(log, ReturnEvent("search", TRUE, results))
       \/ /\ log' = Append(log, ReturnEvent("search", FALSE, "PineconeError"))
          /\ allSources' = <<>>
    /\ UNCHANGED <<error, responses>>
    /\ UNCHANGED <<body, sources, context, systemPrompt, claudeMessages>>
    /\ UNCHANGED <<others, index, pageVars>>

\* index.query returns; on success the matches are mapped to Sources, on
\* failure queryPinecone throws
SearchReturn ==
    /\ pc = "SEARCHING"
    /\ "search" \in pending
    /\ pending' = pending \ {"search"}
    /\ \/ \E results \in QueryResponses(log[Len(log)].request.topK) :
            /\ pc' = "FILTERING"
            /\ allSources' = MatchesToSources(results)
            /\ log' = Append(log, ReturnEvent("search", TRUE, results))
            /\ UNCHANGED <<error, responses>>
       \/ /\ log' = Append(log, ReturnEvent("search", FALSE, "PineconeError"))
          /\ UNCHANGED <<pc, error, responses, allSources>>
    /\ UNCHANGED <<body, sources, context, systemPrompt, claudeMessages>>
    /\ UNCHANGED <<others, index, pageVars>>

\* what the failed return ev of a call throws
Thrown(ev) ==
    IF ev.service = "embed" /\ ev.result \in EmbedOutcomes
    THEN EmbedError(ev.result) ELSE ev.result

\* generateQueryEmbedding or queryPinecone has thrown and POST, suspended
\* at await queryPinecone, has not been resumed with the rejection yet
Rejected ==
    /\ pc \in {"EMBEDDING", "SEARCHING"}
    /\ pending = {}
    /\ log[Len(log)].event = "return"
    /\ ~log[Len(log)].ok

\* the rejection of queryPinecone reaches POST at its await and the catch
\* block runs
CatchRejection ==
    /\ Rejected
    /\ Catch(Thrown(log[Len(log)]))
    /\ UNCHANGED <<body, pending, log, allSources, sources, context,
                   systemPrompt, claudeMessages>>
    /\ UNCHANGED outside

\* const sources = allSources.filter(...).slice(0, 3)
Filter ==
    /\ pc = "FILTERING"
    /\ sources' = RelevanceFilter(allSources)
    /\ pc' = "ASSEMBLING"
    /\ UNCHANGED <<body, pending, log, error, allSources, context, systemPrompt,
                   claudeMessages, responses>>
    /\ UNCHANGED outside

\* const context = formatSourcesForPrompt(sources); const systemPrompt = ...
Assemble ==
    /\ pc = "ASSEMBLING"
    /\ context' = formatSourcesForPrompt(sources)
    /\ systemPrompt' = BuildSystemPrompt(sources, context')
    /\ pc' = "GENERATING"
    /\ UNCHANGED <<body, pending, log, error, allSources, sources,
                   claudeMessages, responses>>
    /\ UNCHANGED outside

\* claudeMessages is built from messages and the query, and
\* anthropic.messages.create is issued; messages.map throws when the body
\* carries no messages
GenerateCall ==
    /\ pc = "GENERATING"
    /\ "generate" \notin pending
    /\ IF "messages" \in DOMAIN body
       THEN /\ claudeMessages' = BuildMessages(body.messages, body)
            /\ pending' = pending \cup {"generate"}
            /\ log' = Append(log, CallEvent("generate",
                         [model |-> ModelId, max_tokens |-> MaxTokens,
                          system |-> systemPrompt, messages |-> claudeMessages']))
            /\ UNCHANGED <<pc, error, responses>>
       ELSE /\ Catch("TypeError")
            /\ UNCHANGED <<claudeMessages, pending, log>>
    /\ UNCHANGED <<body, allSources, sources, context, systemPrompt>>
    /\ UNCHANGED outside

\* response.content[0].type === "text" ? response.content[0].text : ""
AssistantMessage(response) ==
    IF response.content[1].type = "text" THEN response.content[1].text ELSE <<>>

\* a response that returns every search result instead of the kept ones
SuccessResponse_Unfiltered(assistantMessage, srcs) ==
    [status |-> 200,
     body |-> [message |-> assistantMessage,
               sources |-> formatSourcesForResponse(srcs),
               rawSources |-> allSources]]

\* NextResponse.json({message, sources: sourcesText, rawSources: sources})
SuccessResponse(assistantMessage, srcs) ==
    [status |-> 200,
     body |-> [message |-> assistantMessage,
               sources |-> formatSourcesForResponse(srcs),
               rawSources |-> srcs]]

\* anthropic.messages.create returns; on success the answer is extracted,
\* the citation list rendered and the response returned
GenerateReturn ==
    /\ pc = "GENERATING"
    /\ "generate" \in pending
    /\ pending' = pending \ {"generate"}
    /\ \/ \E response \in GenerateResponses :
            /\ log' = Append(log, ReturnEvent("generate", TRUE, response))
            /\ IF Len(response.content) = 0
               THEN Catch("TypeError")
               ELSE /\ pc' = "COMPLETE"
                    /\ responses' = Append(responses,
                          SuccessResponse(AssistantMessage(response), sources))
                    /\ UNCHANGED error
       \/ /\ log' = Append(log, ReturnEvent("generate", FALSE, "APIError"))
          /\ Catch("APIError")
    /\ UNCHANGED <<body, allSources, sources, context, systemPrompt, claudeMessages>>
    /\ UNCHANGED outside

Next ==
    \/ Receive
    \/ EmbedReturn
    \/ EmbedBody
    \/ SearchCall
    \/ SearchReturn
    \/ CatchRejection
    \/ Filter
    \/ Assemble
    \/ GenerateCall
    \/ GenerateReturn

Spec == Init /\ [][Next]_vars

-----------------------------------------------------------------------------
(* several invocations of POST on one server *)

\* the requests given to a server that handles several: with and without
\* turns, with equal and different queries, without messages, unparseable
ConcurrentBodies ==
    { [query |-> <<"q">>, messages |-> <<>>],
      [query |-> <<"q">>, messages |-> <<Turn(1)>>],
      [query |-> <<"w", "h", "y", "?">>, messages |-> <<>>],
      [query |-> <<"q">>],
      [malformed |-> TRUE] }

\* the requests that arrive after the first one, in order of arrival: one
\* more request, with any of the bodies
Arrivals == << ConcurrentBodies >>

\* the invocation that is running, as its locals
Invocation ==
    [pc |-> pc, body |-> body, pending |-> pending, log |-> log,
     error |-> error, allSources |-> allSources, sources |-> sources,
     context |-> context, systemPrompt |-> systemPrompt,
     claudeMessages |-> claudeMessages, responses |-> responses]

\* an invocation of POST with request body b that has not run yet
Fresh(b) ==
    [pc |-> "RECEIVED", body |-> b, pending |-> {}, log |-> <<>>,
     error |-> Null, allSources |-> <<>>, sources |-> <<>>,
     context |-> <<>>, systemPrompt |-> <<>>,
     claudeMessages |-> <<>>, responses |-> <<>>]

\* the event loop runs invocation inv, every local its own
Resume(inv) ==
    /\ pc' = inv.pc
    /\ body' = inv.body
    /\ pending' = inv.pending
    /\ log' = inv.log
    /\ error' = inv.error
    /\ allSources' = inv.allSources
    /\ sources' = inv.sources
    /\ context' = inv.context
    /\ systemPrompt' = inv.systemPrompt
    /\ claudeMessages' = inv.claudeMessages
    /\ responses' = inv.responses

\* the running invocation is suspended at an await (or has not started, or
\* has returned): only there the event loop can run another one. POST is
\* suspended at `await queryPinecone` also after queryPinecone's own awaits
\* have settled, until it resumes with the search results
AtAwait ==
    \/ pending # {}
    \/ pc \in {"RECEIVED", "EMBEDDING", "SEARCHING", "FILTERING", "COMPLETE",
              "FAILED"}

\* a server whose handlers keep `sources` in one module-level variable
Switch_SharedSources ==
    /\ AtAwait
    /\ \E k \in 1..Len(others) :
         /\ others[k].pc \notin {"COMPLETE", "FAILED"}
         /\ Resume([others[k] EXCEPT !.sources = sources])
         /\ others' = [others EXCEPT ![k] = Invocation]
    /\ UNCHANGED <<index, pageVars>>

\* the event loop leaves the running invocation at its await and runs
\* another one that has not returned
Switch ==
    /\ AtAwait
    /\ \E k \in 1..Len(others) :
         /\ others[k].pc \notin {"COMPLETE", "FAILED"}
         /\ Resume(others[k])
         /\ others' = [others EXCEPT ![k] = Invocation]
    /\ UNCHANGED <<index, pageVars>>

\* another request arrives and its handler is started
Arrive ==
    /\ AtAwait
    /\ Len(others) < Len(Arrivals)
    /\ \E b \in Arrivals[Len(others) + 1] :
         /\ Resume(Fresh(b))
         /\ others' = Append(others, Invocation)
    /\ UNCHANGED <<index, pageVars>>

NextConcurrent ==
    \/ Next
    \/ Switch
    \/ Arrive

SpecConcurrent ==
    InitWith(ConcurrentBodies, SmallIndex) /\ [][NextConcurrent]_vars

-----------------------------------------------------------------------------
(* the page: Home and handleExplore, with the endpoint behind fetch *)

\* the last reading of the clock the page may take
MaxClock == 1

\* the explorations and console lines the page may hold when it sends a
\* request
MaxRecords == 2

\* the white space and line terminators String.prototype.trim() removes; a
\* character that has no escape is written as its code point
WhiteSpace ==
    { " ", "\t", "\n", "\r", "\f", "U+000B", "U+00A0", "U+1680", "U+2000",
      "U+2001", "U+2002", "U+2003", "U+2004", "U+2005", "U+2006", "U+2007",
      "U+2008", "U+2009", "U+200A", "U+2028", "U+2029", "U+202F", "U+205F",
      "U+3000", "U+FEFF" }

\* String.prototype.trim() of s is empty
TrimsToEmpty(s) == \A k \in 1..Len(s) : s[k] \in WhiteSpace

UpperCase == <<"A", "B", "C", "D", "E", "F", "G", "H", "I", "J", "K", "L", "M", "N", "O", "P", "Q", "R", "S", "T", "U", "V", "W", "X", "Y", "Z">>
LowerCase == <<"a", "b", "c", "d", "e", "f", "g", "h", "i", "j", "k", "l", "m", "n", "o", "p", "q", "r", "s", "t", "u", "v", "w", "x", "y", "z">>

\* String.prototype.toLowerCase / toUpperCase of one character
ToLowerChar(c) ==
    IF \E k \in 1..26 : UpperCase[k] = c
    THEN LowerCase[CHOOSE k \in 1..26 : UpperCase[k] = c] ELSE c
ToUpperChar(c) ==
    IF \E k \in 1..26 : LowerCase[k] = c
    THEN UpperCase[CHOOSE k \in 1..26 : LowerCase[k] = c] ELSE c

\* String.prototype.toLowerCase
ToLowerCase(s) == [k \in 1..Len(s) |-> ToLowerChar(s[k])]

\* String.prototype.includes
Includes(s, part) ==
    \E k \in 0..(Len(s) - Len(part)) : SubSeq(s, k + 1, k + Len(part)) = part

\* the concepts of extractRelatedConcepts
ConceptNames ==
    << <<"s", "h", "a", "d", "o", "w">>,
       <<"a", "n", "i", "m", "a">>,
       <<"a", "n", "i", "m", "u", "s">>,
       <<"s", "e", "l", "f">>,
       <<"e", "g", "o">>,
       <<"p", "e", "r", "s", "o", "n", "a">>,
       <<"a", "r", "c", "h", "e", "t", "y", "p", "e">>,
       <<"u", "n", "c", "o", "n", "s", "c", "i", "o", "u", "s">>,
       <<"c", "o", "l", "l", "e", "c", "t", "i", "v", "e", " ", "u", "n", "c", "o", "n", "s", "c", "i", "o", "u", "s">>,
       <<"i", "n", "d", "i", "v", "i", "d", "u", "a", "t", "i", "o", "n">>,
       <<"d", "r", "e", "a", "m">>,
       <<"s", "y", "m", "b", "o", "l">>,
       <<"m", "a", "n", "d", "a", "l", "a">>,
       <<"p", "r", "o", "j", "e", "c", "t", "i", "o", "n">>,
       <<"c", "o", "m", "p", "l", "e", "x">>,
       <<"l", "i", "b", "i", "d", "o">>,
       <<"p", "s", "y", "c", "h", "e">>,
       <<"i", "n", "t", "r", "o", "v", "e", "r", "s", "i", "o", "n">>,
       <<"e", "x", "t", "r", "a", "v", "e", "r", "s", "i", "o", "n">>,
       <<"s", "y", "n", "c", "h", "r", "o", "n", "i", "c", "i", "t", "y">>,
       <<"a", "l", "c", "h", "e", "m", "y">>,
       <<"t", "r", "a", "n", "s", "f", "o", "r", "m", "a", "t", "i", "o", "n">> >>

\* c.charAt(0).toUpperCase() + c.slice(1)
Capitalize(c) == <<ToUpperChar(c[1])>> \o SubSeq(c, 2, Len(c))

\* extractRelatedConcepts(text): the concepts of more than four letters
\* found in the text, shuffled (any order), the first four, capitalized
extractRelatedConcepts(text) ==
    LET found == SelectSeq(ConceptNames,
                    LAMBDA c : Includes(ToLowerCase(text), c) /\ Len(c) > 4)
        kept == IF Len(found) < 4 THEN Len(found) ELSE 4
    IN  { [k \in 1..kept |-> Capitalize(found[order[k]])] :
            order \in { f \in [1..kept -> 1..Len(found)] :
                          \A i, j \in 1..kept : i # j => f[i] # f[j] } }

\* SEED_CONCEPTS, the first of them
SeedConcepts ==
    << [name |-> "The Shadow",
        query |-> <<"W", "h", "a", "t", " ", "i", "s", " ", "t", "h", "e", " ", "s", "h", "a", "d", "o", "w", " ", "i", "n", " ", "J", "u", "n", "g", "i", "a", "n", " ", "p", "s", "y", "c", "h", "o", "l", "o", "g", "y", "?">>] >>

\* what the user types into the input: nothing, white space, or the
\* question of the seed concept
TypedInputs == { <<>>, <<" ", "U+00A0", "\r">>, SeedConcepts[1].query }

\* no invocation of POST is under way
NoInvocation == [Fresh(<<>>) EXCEPT !.pc = "IDLE"]

\* the page after load, the endpoint idle; chunks is what the index holds
\* and clock the latest reading of the clock
InitPageAt(chunks, clock) ==
    /\ pc = "IDLE"
    /\ body = <<>>
    /\ pending = {}
    /\ log = <<>>
    /\ error = Null
    /\ allSources = <<>>
    /\ sources = <<>>
    /\ context = <<>>
    /\ systemPrompt = <<>>
    /\ claudeMessages = <<>>
    /\ responses = <<>>
    /\ others = <<>>
    /\ index = chunks
    /\ PageInitAt(clock)

InitPageWith(chunks) == InitPageAt(chunks, 0)

\* an index that holds no chunk
EmptyIndex == {}

InitPage == InitPageWith(EmptyIndex)

\* seq without its k-th element
Without(seq, k) == SubSeq(seq, 1, k - 1) \o SubSeq(seq, k + 1, Len(seq))

\* the page awaits fetch: the request is with the endpoint, no response yet
AwaitingFetch == fetching # Null /\ "slot" \in DOMAIN fetching[1]

\* the page awaits response.json()
AwaitingBody == fetching # Null /\ "response" \in DOMAIN fetching[1]

\* the invocation of POST the page's fetch waits for: the running one
\* (slot 0) or a suspended one
Served ==
    IF fetching[1].slot = 0 THEN Invocation ELSE others[fetching[1].slot]

\* the running invocation is none, or has returned its response to a
\* fetch that no longer waits for it
Disposable ==
    \/ pc = "IDLE"
    \/ pc \in {"COMPLETE", "FAILED"} /\ ~(AwaitingFetch /\ fetching[1].slot = 0)

\* the invocation in the slot has returned and is gone
Release(slot) ==
    IF slot = 0
    THEN Resume(NoInvocation) /\ others' = others
    ELSE UNCHANGED requestVars /\ others' = Without(others, slot)

\* the bound on the behaviours explored: the user asks for another
\* exploration only while the page holds fewer than MaxRecords explorations
\* and console lines. It restricts the user's events in NextPage and
\* NextHandler, not handleExplore, which sends whatever the page holds
BelowMaxRecords == Len(explorations) + Len(console) < MaxRecords

\* the request of fetch reaches the endpoint: POST is invoked with the body
\* and starts when the event loop gets to it
Invoke(b) ==
    IF Disposable THEN Resume(Fresh(b)) /\ others' = others
    ELSE UNCHANGED requestVars /\ others' = Append(others, Fresh(b))

\* the event loop of the endpoint runs another invocation that has not
\* returned, leaving the running one at its await
Schedule ==
    /\ AtAwait \/ pc = "IDLE"
    /\ \E k \in 1..Len(others) :
         /\ others[k].pc \notin {"COMPLETE", "FAILED"}
         /\ Resume(others[k])
         /\ IF Disposable
            THEN /\ others' = Without(others, k)
                 /\ fetching' =
                      IF AwaitingFetch
                      THEN Some([fetching[1] EXCEPT !.slot =
                                   IF @ = k THEN 0 ELSE IF @ > k THEN @ - 1 ELSE @])
                      ELSE fetching
            ELSE /\ others' = [others EXCEPT ![k] = Invocation]
                 /\ fetching' =
                      IF AwaitingFetch
                      THEN Some([fetching[1] EXCEPT !.slot =
                                   IF @ = 0 THEN k ELSE IF @ = k THEN 0 ELSE @])
                      ELSE fetching
    /\ UNCHANGED <<explorations, input, isLoading, expandedId, now, console>>
    /\ UNCHANGED index

\* onChange of the input, which is disabled while loading
SetInput ==
    /\ ~isLoading
    /\ \E text \in TypedInputs : input' = text
    /\ UNCHANGED <<explorations, isLoading, expandedId, fetching, now, console>>
    /\ UNCHANGED <<requestVars, others, index>>

\* a handleExplore that does not look at isLoading: a request is sent while
\* another is in flight
HandleExplore_NoLoadingGuard(query) ==
    IF TrimsToEmpty(query)
    THEN UNCHANGED vars
    ELSE /\ input' = <<>>
         /\ isLoading' = TRUE
         /\ fetching' = Some([query |-> query,
                              slot |-> IF Disposable THEN 0 ELSE Len(others) + 1])
         /\ Invoke([messages |-> <<>>, query |-> query])
         /\ UNCHANGED <<explorations, expandedId, now, console>>
         /\ UNCHANGED index

\* handleExplore up to its await of fetch: return on a blank query or while
\* loading; else clear the input, set isLoading and send the request
HandleExplore(query) ==
    IF TrimsToEmpty(query) \/ isLoading
    THEN UNCHANGED vars
    ELSE /\ input' = <<>>
         /\ isLoading' = TRUE
         /\ fetching' = Some([query |-> query,
                              slot |-> IF Disposable THEN 0 ELSE Len(others) + 1])
         /\ Invoke([messages |-> <<>>, query |-> query])
         /\ UNCHANGED <<explorations, expandedId, now, console>>
         /\ UNCHANGED index

\* onSubmit of the form
Submit == HandleExplore(input)

\* onClick of a seed concept, shown while there is no exploration and no
\* request
ExploreConcept ==
    /\ Len(explorations) = 0
    /\ ~isLoading
    /\ \E k \in 1..Len(SeedConcepts) : HandleExplore(SeedConcepts[k].query)

\* a handleExplore whose catch block shows what it has of the answer
Caught_ShowsPartial(message) ==
    /\ console' = Append(console, <<"Error:", message>>)
    /\ isLoading' = FALSE
    /\ explorations' = << [id |-> <<>>, query |-> fetching[1].query,
                           response |-> <<>>, sources |-> <<>>,
                           relatedConcepts |-> <<>>] >> \o explorations
    /\ UNCHANGED <<expandedId, input>>

\* a handleExplore without the finally block
Caught_NoFinally(message) ==
    /\ console' = Append(console, <<"Error:", message>>)
    /\ UNCHANGED <<explorations, expandedId, input, isLoading>>

\* the rest of handleExplore after a failure: the catch block logs the
\* error to the console, finally resets isLoading
Caught(message) ==
    /\ console' = Append(console, <<"Error:", message>>)
    /\ isLoading' = FALSE
    /\ UNCHANGED <<explorations, expandedId, input>>

\* Response.ok: the status is in the range 200-299
ResponseOk(response) == response.status \in 200..299

\* what the rejection of response.json() can be: the body is lost on the
\* way, or is not JSON
BodyErrors == { "TypeError", "SyntaxError" }

\* fetch resolves with the endpoint's response: a non-OK response is thrown
\* and caught, for an OK one handleExplore awaits response.json()
FetchResolves ==
    /\ AwaitingFetch
    /\ Served.pc \in {"COMPLETE", "FAILED"}
    /\ Release(fetching[1].slot)
    /\ IF ResponseOk(Served.responses[1])
       THEN /\ fetching' = Some([query |-> fetching[1].query,
                                 response |-> Served.responses[1]])
            /\ UNCHANGED <<explorations, input, isLoading, expandedId, console>>
       ELSE /\ fetching' = Null
            /\ Caught("Failed to get response")
    /\ UNCHANGED <<now, index>>

\* response.json() settles and handleExplore runs to its end: the data
\* become the new first exploration, expanded, with the reading of the clock
\* as its id; a rejection is caught
ReadBody ==
    /\ AwaitingBody
    /\ fetching' = Null
    /\ \/ \E t \in now..MaxClock :
            \E related \in extractRelatedConcepts(fetching[1].response.body.message) :
              LET data == fetching[1].response.body
                  newExploration ==
                      [id |-> NumberToString(t),
                       query |-> fetching[1].query,
                       response |-> data.message,
                       sources |-> data.rawSources,
                       relatedConcepts |-> related]
              IN  /\ now' = t
                  /\ explorations' = <<newExploration>> \o explorations
                  /\ expandedId' = Some(newExploration.id)
                  /\ isLoading' = FALSE
                  /\ UNCHANGED <<input, console>>
       \/ \E message \in BodyErrors :
            /\ Caught(message)
            /\ now' = now
    /\ UNCHANGED <<requestVars, others, index>>

\* fetch rejects (the request or the response is lost on the network),
\* wherever the endpoint is with the request: an invocation that has not
\* returned goes on
FetchRejects ==
    /\ AwaitingFetch
    /\ IF Served.pc \in {"COMPLETE", "FAILED"}
       THEN Release(fetching[1].slot)
       ELSE UNCHANGED <<requestVars, others>>
    /\ fetching' = Null
    /\ Caught("Failed to fetch")
    /\ UNCHANGED <<now, index>>

\* a Clear that collapses the expanded exploration and keeps the list
Clear_CollapsesOnly ==
    /\ Len(explorations) > 0
    /\ expandedId' = Null
    /\ UNCHANGED <<explorations, input, isLoading, fetching, now, console>>
    /\ UNCHANGED <<requestVars, others, index>>

\* a Clear that empties the list and leaves expandedId as it is
Clear_KeepsExpanded ==
    /\ Len(explorations) > 0
    /\ explorations' = <<>>
    /\ UNCHANGED <<expandedId, input, isLoading, fetching, now, console>>
    /\ UNCHANGED <<requestVars, others, index>>

\* onClick of Clear, shown while there are explorations
Clear ==
    /\ Len(explorations) > 0
    /\ explorations' = <<>>
    /\ expandedId' = Null
    /\ UNCHANGED <<input, isLoading, fetching, now, console>>
    /\ UNCHANGED <<requestVars, others, index>>

\* onClick of an exploration's header: collapse it if expanded, else expand
ToggleExpanded ==
    /\ \E k \in 1..Len(explorations) :
         LET isExpanded == expandedId = Some(explorations[k].id)
         IN  expandedId' = IF isExpanded THEN Null ELSE Some(explorations[k].id)
    /\ UNCHANGED <<explorations, input, isLoading, fetching, now, console>>
    /\ UNCHANGED <<requestVars, others, index>>

NextPage ==
    \/ Next
    \/ Schedule
    \/ SetInput
    \/ BelowMaxRecords /\ Submit
    \/ BelowMaxRecords /\ ExploreConcept
    \/ FetchResolves
    \/ ReadBody
    \/ FetchRejects
    \/ Clear
    \/ ToggleExpanded

SpecPage == InitPage /\ [][NextPage]_vars

\* the endpoint runs whenever it can and every fetch settles: the awaited
\* calls return or fail, and the browser resolves or rejects the fetch
FairSpecPage ==
    /\ InitPageAt(EmptyIndex, MaxClock)
    /\ [][NextPage]_vars
    /\ WF_vars(Next)
    /\ WF_vars(Schedule)
    /\ WF_vars(FetchResolves \/ ReadBody \/ FetchRejects)

\* the queries handleExplore can be called with
ExploreQueries ==
    TypedInputs \cup { SeedConcepts[k].query : k \in 1..Len(SeedConcepts) }

\* handleExplore is called, in whatever state the page is, also where the
\* rendered page offers no element that calls it
ExploreAny == \E query \in ExploreQueries : HandleExplore(query)

NextHandler ==
    \/ NextPage
    \/ BelowMaxRecords /\ ExploreAny

\* the page with handleExplore callable at any time
SpecHandler == InitPage /\ [][NextHandler]_vars

\* what Home renders, from its four state values
Render(explorationList, inputValue, loading, expanded) ==
    [clearButton |-> Len(explorationList) > 0,
     intro |-> Len(explorationList) = 0 /\ ~loading,
     inputValue |-> inputValue,
     inputDisabled |-> loading,
     submitButton |-> ~TrimsToEmpty(inputValue) \/ loading,
     submitDisabled |-> loading \/ TrimsToEmpty(inputValue),
     seedConcepts |-> Len(explorationList) = 0 /\ ~loading,
     loadingIndicator |-> loading,
     cards |-> [k \in 1..Len(explorationList) |->
                  [query |-> explorationList[k].query,
                   isExpanded |-> expanded = Some(explorationList[k].id),
                   response |-> explorationList[k].response,
                   sources |-> explorationList[k].sources]]]

\* what Home renders now
Rendered == Render(explorations, input, isLoading, expandedId)

\* the handler runs whenever it can: the event loop resumes POST after each
\* awaited call has returned or failed, and every call does one or the other
FairSpec == InitWith(Bodies, SmallIndex) /\ [][Next]_vars /\ WF_vars(Next)

-----------------------------------------------------------------------------
(* The Relevance Filter on its own: result lists in any order *)

\* Sources like those queryPinecone produces, scores on both sides of the
\* threshold and on it
SampleSources == { MatchToSource(StoredMatches[k]) : k \in {1, 3, 4, 6, 9} }

RECURSIVE SeqsOfLen(_, _)
SeqsOfLen(S, n) ==
    IF n = 0 THEN { <<>> }
    ELSE { Append(q, x) : q \in SeqsOfLen(S, n - 1), x \in S }

\* the six results of the spec's Scenario A
ScenarioAResults == MatchesToSources([matches |-> MatchesAt({1, 2, 3, 4, 8, 9})])

FilterInputs ==
    UNION { SeqsOfLen(SampleSources, n) : n \in 0..MaxResults }
    \cup { ScenarioAResults }

InitFilter ==
    /\ others = <<>>
    /\ index = FullIndex
    /\ PageInit
    /\ pc = "FILTERING"
    /\ body = [query |-> <<"q">>, messages |-> <<>>]
    /\ pending = {}
    /\ log = <<>>
    /\ error = Null
    /\ allSources \in FilterInputs
    /\ sources = <<>>
    /\ context = <<>>
    /\ systemPrompt = <<>>
    /\ claudeMessages = <<>>
    /\ responses = <<>>

NextFilter == Filter

SpecFilter == InitFilter /\ [][NextFilter]_vars

-----------------------------------------------------------------------------
(* Helpers of the properties *)

Scores(srcs) == [k \in 1..Len(srcs) |-> srcs[k].score]

StartsWith(s, prefix) ==
    Len(s) >= Len(prefix) /\ SubSeq(s, 1, Len(prefix)) = prefix

\* String.prototype.split with a non-empty separator
RECURSIVE SplitFrom(_, _, _)
SplitFrom(s, sep, current) ==
    IF Len(s) = 0 THEN << current >>
    ELSE IF StartsWith(s, sep)
         THEN << current >> \o SplitFrom(SubSeq(s, Len(sep) + 1, Len(s)), sep, <<>>)
         ELSE SplitFrom(Tail(s), sep, Append(current, Head(s)))

Split(s, sep) == SplitFrom(s, sep, <<>>)

\* the events of the log that are calls / returns of a service
CallsOf(svc) ==
    { k \in 1..Len(log) : log[k].event = "call" /\ log[k].service = svc }
ReturnsOf(svc) ==
    { k \in 1..Len(log) : log[k].event = "return" /\ log[k].service = svc }

\* the filter has run in this request
Filtered == pc \in {"ASSEMBLING", "GENERATING", "COMPLETE"}

-----------------------------------------------------------------------------
(* Properties *)

\* C1: the filtered list has at most 3 elements and no more than the input,
\* and each of its elements has a score strictly above 0.7 (70 hundredths).
C1_FilterBounded ==
    Filtered =>
        /\ Len(sources) <= 3
        /\ Len(sources) <= Len(allSources)
        /\ \A k \in 1..Len(sources) : sources[k].score > 70

\* C1 witness: six results came back, more than three above the threshold
\* and one exactly on it, and the filter has run.
C1_Witness ==
    /\ pc = "ASSEMBLING"
    /\ Len(allSources) = 6
    /\ Cardinality({k \in 1..6 : allSources[k].score > 70}) > 3
    /\ \E k \in 1..6 : allSources[k].score = 70
    /\ Len(sources) = 3

\* C2: the filtered list is the first min(3, n) of the n inputs scored above
\* 0.7, in input order (threshold first, truncation second); the Scenario A
\* scores keep exactly 0.9, 0.82, 0.75.
C2_FilterIsPrefixOfKept ==
    pc = "ASSEMBLING" =>
        LET kept == {k \in 1..Len(allSources) : allSources[k].score > 70}
            n == Cardinality(kept)
        IN  /\ Len(sources) = (IF n < 3 THEN n ELSE 3)
            /\ \A k \in 1..Len(sources) : sources[k] = allSources[Nth(kept, k)]
            /\ Scores(allSources) = <<90, 82, 75, 71, 60, 40>>
                  => Scores(sources) = <<90, 82, 75>>

\* C2 witness: an input out of score order, a low score among its first
\* three, four scores above the threshold; three were kept.
C2_Witness ==
    /\ pc = "ASSEMBLING"
    /\ Len(allSources) = 4
    /\ allSources[1].score <= 70
    /\ allSources[2].score < allSources[3].score
    /\ Cardinality({k \in 1..4 : allSources[k].score > 70}) = 3
    /\ Len(sources) = 3

\* the system prompt of a request whose context is empty
FallbackPrompt ==
    PromptRules \o
    <<"No highly relevant sources found - answer from general knowledge of Jung.">>

\* C3: an empty filtered context (no match, or every score <= 0.7, 0.7
\* itself included) is not a failure: filtering and assembling go on to
\* GENERATING, the system prompt built and sent is the no-context fallback
\* instruction, and the completed response has an empty citation list and an
\* empty retrieval context.
C3_EmptyContextFallback ==
    /\ [][ (pc = "FILTERING" /\ \A k \in 1..Len(allSources) : allSources[k].score <= 70)
              => (pc' = "ASSEMBLING" /\ sources' = <<>>) ]_vars
    /\ [][ (pc = "ASSEMBLING" /\ sources = <<>>)
              => (pc' = "GENERATING" /\ systemPrompt' = FallbackPrompt) ]_vars
    /\ [][ (pc = "GENERATING" /\ sources = <<>> /\ CallsOf("generate")' # {})
              => \A k \in CallsOf("generate")' :
                    log'[k].request.system = FallbackPrompt ]_vars
    /\ [](pc = "COMPLETE" /\ sources = <<>>
              => /\ responses[1].status = 200
                 /\ responses[1].body.sources = <<>>
                 /\ responses[1].body.rawSources = <<>>)

\* C3 witness: six results came back, all scored <= 0.7 and one exactly
\* 0.7, and the request completed.
C3_Witness ==
    /\ pc = "COMPLETE"
    /\ Len(allSources) = 6
    /\ \E k \in 1..6 : allSources[k].score = 70
    /\ sources = <<>>

\* C4: once the embedding call has failed (the service answered with a
\* non-success response, the request was rejected, or the body of the
\* response could not be used), the request is FAILED with the generic
\* error, which carries no citations, as its only response, or
\* generateQueryEmbedding has thrown and POST is about to catch, nothing
\* answered yet; no search call and no generation call has been issued.
C4_EmbeddingFailureIsFatal ==
    (\E k \in 1..Len(log) :
        /\ log[k].service = "embed"
        /\ log[k].event \in {"response", "return"}
        /\ ~log[k].ok) =>
        /\ CallsOf("search") = {}
        /\ CallsOf("generate") = {}
        /\ \/ /\ pc = "FAILED"
              /\ responses = << [status |-> 500,
                                 body |-> [error |-> "Failed to process request"]] >>
           \/ /\ pc = "EMBEDDING"
              /\ Rejected
              /\ responses = <<>>

\* C4 witness: the embedding service answered with a non-success status.
C4_Witness ==
    /\ pc = "FAILED"
    /\ \E k \in ReturnsOf("embed") :
          /\ ~log[k].ok /\ log[k].result = "not_ok"
          /\ log[k - 1].event = "response" /\ ~log[k - 1].ok

\* the query of the body is missing, empty or whitespace-only
BlankQuery ==
    \/ "query" \notin DOMAIN body
    \/ \A k \in 1..Len(body.query) : body.query[k] = " "

\* C5: a request whose query is missing, empty or whitespace-only issues no
\* embedding, search or generation call.
C5_BlankQueryRejected ==
    BlankQuery => \A k \in 1..Len(log) : log[k].event # "call"

\* the citation header "[i] work_title" or "[i] work_title, chapter"
ExpectedCitation(i, source) ==
    <<"[", <<"1", "2", "3">>[i], "]", " ">> \o source.work_title
    \o (IF source.chapter # Null THEN <<",", " ">> \o source.chapter[1] ELSE <<>>)

\* C6: for a non-empty context of n sources the instruction block has n
\* blocks, the citation list n lines, and the first line of block i is line i
\* of the list: "[i] work_title", then ", chapter" when there is a chapter,
\* for the i-th source.
C6_CitationNumberingAgrees ==
    (pc = "COMPLETE" /\ Len(sources) > 0) =>
        LET blocks == Split(context, BlockDelimiter)
            lines == Split(responses[1].body.sources, LineBreak)
        IN  /\ Len(blocks) = Len(sources)
            /\ Len(lines) = Len(sources)
            /\ \A i \in 1..Len(sources) :
                  /\ Split(blocks[i], LineBreak)[1] = lines[i]
                  /\ lines[i] = ExpectedCitation(i, sources[i])

\* C6 witness: three sources, with and without a chapter, one with a text of
\* two lines.
C6_Witness ==
    /\ pc = "COMPLETE"
    /\ Len(sources) = 3
    /\ \E i, j, k \in 1..3 :
          /\ sources[i].chapter # Null
          /\ sources[j].chapter = Null
          /\ \E c \in 1..Len(sources[k].text) : sources[k].text[c] = "\n"

\* C7: the external calls of a request are strictly sequential: at most one
\* is outstanding at any time; every search call is issued right after the
\* embedding call returned successfully; every generation call is issued
\* after the search call returned successfully, with the system prompt that
\* was assembled from the filtered results.
C7_CallsSequential ==
    /\ Cardinality(pending) <= 1
    /\ \A k \in CallsOf("search") :
          /\ k > 1
          /\ log[k - 1].event = "return" /\ log[k - 1].service = "embed"
          /\ log[k - 1].ok
    /\ \A k \in CallsOf("generate") :
          /\ \E j \in ReturnsOf("search") : j < k /\ log[j].ok
          /\ \A j \in 1..(k - 1) : log[j].event = "call" =>
                \E r \in (j + 1)..(k - 1) :
                    log[r].event = "return" /\ log[r].service = log[j].service
          /\ sources = SubSeq(SelectSeq(allSources, LAMBDA x : x.score > 70), 1,
                              Len(sources))
          /\ log[k].request.system = systemPrompt
          /\ systemPrompt = PromptRules \o
                (IF Len(sources) > 0 THEN SourcesHeading \o context
                 ELSE NoSourcesInstruction)

\* C7 witness: all three calls were issued and the last has returned.
C7_Witness ==
    /\ pc = "COMPLETE"
    /\ CallsOf("embed") # {} /\ CallsOf("search") # {} /\ CallsOf("generate") # {}
    /\ Len(sources) = 2

\* C8: a request becomes FAILED only from EMBEDDING, SEARCHING or GENERATING
\* and only when the external call of that state has just failed; never from
\* RECEIVED, FILTERING or ASSEMBLING.
C8_FailedOnlyOnServiceError ==
    [][ (pc # "FAILED" /\ pc' = "FAILED") =>
            /\ pc \in {"EMBEDDING", "SEARCHING", "GENERATING"}
            /\ log'[Len(log')].event = "return"
            /\ ~log'[Len(log')].ok ]_vars

\* C9: a FAILED request has returned exactly one response, status 500 with
\* the body {error: "Failed to process request"} whatever the cause, and
\* nothing else in it: no answer, no citation list, no retrieval context.
C9_GenericErrorOnly ==
    pc = "FAILED" =>
        /\ Len(responses) = 1
        /\ responses[1].status = 500
        /\ DOMAIN responses[1].body = {"error"}
        /\ responses[1].body.error = "Failed to process request"

\* C9 witness: the generation call failed after sources had been retrieved
\* and kept.
C9_Witness ==
    /\ pc = "FAILED"
    /\ Len(sources) > 0
    /\ \E k \in ReturnsOf("generate") : ~log[k].ok

\* C10: a COMPLETE request has returned the generated answer text, the
\* filtered context and the citation list; the returned context is the very
\* sequence rendered into the system prompt that was sent to the generator,
\* and the citation list is rendered from that sequence.
C10_CompleteResponse ==
    pc = "COMPLETE" =>
        LET r == responses[1]
            call == log[CHOOSE k \in CallsOf("generate") : TRUE]
            returned == log[CHOOSE k \in ReturnsOf("generate") : TRUE].result
        IN  /\ Len(responses) = 1
            /\ r.status = 200
            /\ DOMAIN r.body = {"message", "sources", "rawSources"}
            /\ r.body.message =
                  (IF returned.content[1].type = "text"
                   THEN returned.content[1].text ELSE <<>>)
            /\ r.body.rawSources = RelevanceFilter(allSources)
            /\ call.request.system =
                  BuildSystemPrompt(r.body.rawSources,
                                    formatSourcesForPrompt(r.body.rawSources))
            /\ r.body.sources = formatSourcesForResponse(r.body.rawSources)

\* C10 witness: a completed request with a non-empty answer and a context
\* shorter than the search results.
C10_Witness ==
    /\ pc = "COMPLETE"
    /\ responses[1].body.message # <<>>
    /\ Len(responses[1].body.rawSources) = 3
    /\ Len(allSources) = 6

\* C11: no retry: within one request each of the embedding, search and
\* generation services is called at most once, whether its call succeeds or
\* fails.
C11_NoRetry ==
    \A svc \in {"embed", "search", "generate"} : Cardinality(CallsOf(svc)) <= 1

\* C11 witness: the search call failed, after one embedding call and one
\* search call.
C11_Witness ==
    /\ pc = "FAILED"
    /\ Cardinality(CallsOf("embed")) = 1
    /\ Cardinality(CallsOf("search")) = 1
    /\ \E k \in ReturnsOf("search") : ~log[k].ok

\* C13: the context handed to the prompt assembler and returned to the
\* client is in descending score order: of two adjacent members the earlier
\* has a score greater than or equal to the later.
C13_ContextDescending ==
    /\ Filtered =>
          \A k \in 1..(Len(sources) - 1) : sources[k].score >= sources[k + 1].score
    /\ pc = "COMPLETE" =>
          LET raw == responses[1].body.rawSources
          IN  \A k \in 1..(Len(raw) - 1) : raw[k].score >= raw[k + 1].score

\* C13 witness: a returned context of three sources, not all of one score.
C13_Witness ==
    /\ pc = "COMPLETE"
    /\ Len(responses[1].body.rawSources) = 3
    /\ responses[1].body.rawSources[1].score > responses[1].body.rawSources[3].score

\* C14: a request with a valid query and no messages key, whose external
\* calls all succeed, does not fail.
C14_MessagesOptional ==
    ( /\ "messages" \notin DOMAIN body
      /\ "query" \in DOMAIN body
      /\ ~BlankQuery
      /\ \A k \in 1..Len(log) : log[k].event = "return" => log[k].ok )
    => pc # "FAILED"

\* C19: once an external call of a request has failed, the request is
\* FAILED, or the failure is on its way to POST's catch and the next step of
\* the request makes it FAILED; no further external call is issued; a failed
\* search after a successful embedding leaves the generation service
\* uncalled.
C19_NoCallAfterFailure ==
    /\ [](\A k \in 1..Len(log) :
            (log[k].event = "return" /\ ~log[k].ok) =>
                /\ pc = "FAILED" \/ (k = Len(log) /\ Rejected)
                /\ \A j \in (k + 1)..Len(log) : log[j].event # "call")
    /\ []((\E k \in ReturnsOf("search") : ~log[k].ok) => CallsOf("generate") = {})
    /\ [][Rejected => (pc' = "FAILED" \/ UNCHANGED requestVars)]_vars

\* C19 witness: the embedding succeeded and the search failed.
C19_Witness ==
    /\ pc = "FAILED"
    /\ \E k \in ReturnsOf("embed") : log[k].ok
    /\ \E k \in ReturnsOf("search") : ~log[k].ok

\* the value of a metadata key of a match, absent when the match has no
\* metadata or the metadata has no such key
MetadataAbsent(match, key) ==
    "metadata" \notin DOMAIN match \/ key \notin DOMAIN match.metadata

\* C20: the search results are the matches mapped one to one, in order: an
\* absent work title becomes "Unknown", an absent chapter null, an absent
\* text the empty string, an absent score 0, and values that are present
\* (and not empty) are kept; a response without matches gives the empty
\* list; a match without a score never passes the filter.
C20_MatchDefaults ==
    (pc \in {"FILTERING", "ASSEMBLING"}) =>
        LET results == log[CHOOSE k \in ReturnsOf("search") : TRUE].result
        IN  IF "matches" \notin DOMAIN results
            THEN allSources = <<>>
            ELSE /\ Len(allSources) = Len(results.matches)
                 /\ \A k \in 1..Len(allSources) :
                      LET m == results.matches[k]
                          s == allSources[k]
                      IN  /\ IF MetadataAbsent(m, "work_title")
                             THEN s.work_title = <<"U", "n", "k", "n", "o", "w", "n">>
                             ELSE m.metadata.work_title # <<>>
                                     => s.work_title = m.metadata.work_title
                          /\ IF MetadataAbsent(m, "chapter")
                             THEN s.chapter = Null
                             ELSE m.metadata.chapter # <<>>
                                     => s.chapter = Some(m.metadata.chapter)
                          /\ IF MetadataAbsent(m, "text")
                             THEN s.text = <<>>
                             ELSE s.text = m.metadata.text
                          /\ IF "score" \notin DOMAIN m
                             THEN /\ s.score = 0
                                  /\ pc = "ASSEMBLING" =>
                                        \A j \in 1..Len(sources) : sources[j] # s
                             ELSE s.score = m.score

\* C20 witness: the matches hold one without metadata and one without a
\* score, and the filter has run.
C20_Witness ==
    /\ pc = "ASSEMBLING"
    /\ LET results == log[CHOOSE k \in ReturnsOf("search") : TRUE].result
       IN  /\ "matches" \in DOMAIN results
           /\ \E k \in 1..Len(results.matches) :
                 "metadata" \notin DOMAIN results.matches[k]
           /\ \E k \in 1..Len(results.matches) :
                 "score" \notin DOMAIN results.matches[k]
    /\ Len(sources) > 0

\* the request is in a terminal state
Terminal == pc \in {"COMPLETE", "FAILED"}

\* C12: when every external call returns or fails, a request eventually
\* reaches COMPLETE or FAILED; it has produced exactly one response there and
\* none before, the response has a success body exactly in COMPLETE and an
\* error body exactly in FAILED, never both, and a terminal state is never
\* left.
C12_OneTerminalOneResponse ==
    /\ <>Terminal
    /\ [](IF Terminal THEN Len(responses) = 1 ELSE responses = <<>>)
    /\ [](Terminal =>
            /\ ("message" \in DOMAIN responses[1].body) = (pc = "COMPLETE")
            /\ ("error" \in DOMAIN responses[1].body) = (pc = "FAILED")
            /\ ~({"message", "error"} \subseteq DOMAIN responses[1].body))
    /\ [][Terminal => (pc' = pc /\ responses' = responses)]_vars

\* C12 witness: a request that went through all three calls and completed
\* with its one response.
C12_Witness ==
    /\ pc = "COMPLETE"
    /\ Len(responses) = 1
    /\ ReturnsOf("generate") # {}

\* every invocation the server has been given: the running one and the others
Invocations == <<Invocation>> \o others

\* the successful returns of service svc in call log l
OkReturns(l, svc) ==
    { k \in 1..Len(l) : l[k].event = "return" /\ l[k].service = svc /\ l[k].ok }

\* the kept sources as the search return of call log l alone gives them
OwnSources(l) ==
    RelevanceFilter(MatchesToSources(l[CHOOSE k \in OkReturns(l, "search") : TRUE].result))

\* the response that request body b and the returns in its own call log l
\* determine
ExpectedResponse(b, l) ==
    IF OkReturns(l, "generate") = {}
    THEN ErrorResponse
    ELSE LET generated == l[CHOOSE k \in OkReturns(l, "generate") : TRUE].result
         IN  IF Len(generated.content) = 0
             THEN ErrorResponse
             ELSE SuccessResponse(AssistantMessage(generated), OwnSources(l))

\* the request of call event k of log l as b and the earlier returns of l
\* alone determine it
ExpectedCall(b, l, k) ==
    IF l[k].service = "embed"
    THEN [text |-> EmbedText(b)]
    ELSE IF l[k].service = "search"
    THEN LET embedding == l[CHOOSE j \in OkReturns(l, "embed") : TRUE].result
         IN  IF embedding = Undefined
             THEN [topK |-> TopK, includeMetadata |-> TRUE]
             ELSE [vector |-> embedding, topK |-> TopK, includeMetadata |-> TRUE]
    ELSE [model |-> ModelId, max_tokens |-> MaxTokens,
          system |-> BuildSystemPrompt(OwnSources(l),
                                       formatSourcesForPrompt(OwnSources(l))),
          messages |-> BuildMessages(b.messages, b)]

\* C15: under every interleaving of requests, and after earlier failed or
\* completed ones, what a request sends to the services and what it answers
\* is determined by its own body and the returns of its own calls alone.
C15_RequestsIndependent ==
    \A n \in 1..Len(Invocations) :
        LET inv == Invocations[n]
        IN  /\ \A k \in 1..Len(inv.log) :
                  inv.log[k].event = "call" =>
                      inv.log[k].request = ExpectedCall(inv.body, inv.log, k)
            /\ inv.pc \in {"COMPLETE", "FAILED"} =>
                  inv.responses = <<ExpectedResponse(inv.body, inv.log)>>

\* C15 witness: a request has completed with sources of its own while
\* another one, started before, is still waiting for its generation call
\* with different sources.
C15_Witness ==
    /\ Len(others) = 1
    /\ pc = "COMPLETE"
    /\ sources # <<>>
    /\ others[1].pending = {"generate"}
    /\ others[1].sources # <<>>
    /\ sources # others[1].sources

\* invocation inv has had its search results
Searched(inv) == OkReturns(inv.log, "search") # {}

\* what invocation inv asked service svc
Asked(inv, svc) ==
    inv.log[CHOOSE k \in 1..Len(inv.log) :
              inv.log[k].event = "call" /\ inv.log[k].service = svc].request

\* what service svc gave invocation inv
Given(inv, svc) == inv.log[CHOOSE k \in OkReturns(inv.log, svc) : TRUE].result

\* service svc answered invocations a and b alike: if they asked the same,
\* they were given the same
AnsweredAlike(a, b, svc) ==
    Asked(a, svc) = Asked(b, svc) => Given(a, svc) = Given(b, svc)

C16_FailureShowsNothing ==
    [][(Len(console') > Len(console) \/ (fetching = Null /\ fetching' # Null))
         => (explorations' = explorations /\ expandedId' = expandedId)]_vars

\* C16 witness: a request has failed after an earlier one succeeded, and the
\* earlier exploration is still there, expanded.
C16_Witness ==
    /\ console # <<>>
    /\ ~isLoading
    /\ Len(explorations) = 1
    /\ expandedId = Some(explorations[1].id)
    /\ console[Len(console)] = <<"Error:", "Failed to get response">>

\* C17: when a request made from the page has just failed, the page presents
\* an error indication: it does not render what it renders after load.
C17_ErrorIndicated ==
    [][Len(console') > Len(console)
         => Rendered' # Render(<<>>, <<>>, FALSE, Null)]_vars

\* C21: the conversation sent to the generator is the prior turns of the
\* request in their order, role and content unchanged, followed by one
\* message with role user whose content is the query; its length is the
\* number of prior turns plus one.
C21_ConversationSent ==
    \A k \in CallsOf("generate") :
        LET sent == log[k].request.messages
            n == Len(body.messages)
        IN  /\ Len(sent) = n + 1
            /\ \A j \in 1..n :
                  /\ sent[j].role = body.messages[j].role
                  /\ sent[j].content = body.messages[j].content
            /\ sent[n + 1].role = "user"
            /\ IF "query" \in DOMAIN body
               THEN sent[n + 1].content = body.query
               ELSE "content" \notin DOMAIN sent[n + 1]

\* C21 witness: a generation call of a request with two prior turns of
\* different roles and a query.
C21_Witness ==
    /\ CallsOf("generate") # {}
    /\ "query" \in DOMAIN body
    /\ Len(body.messages) = 2
    /\ body.messages[1].role # body.messages[2].role

\* C22: the text sent to the embedding service is "query: " followed by the
\* unmodified query string, and never begins with "passage: ".
C22_QueryMarker ==
    \A k \in CallsOf("embed") :
        /\ "query" \in DOMAIN body =>
              log[k].request.text = <<"q", "u", "e", "r", "y", ":", " ">> \o body.query
        /\ StartsWith(log[k].request.text, <<"q", "u", "e", "r", "y", ":", " ">>)
        /\ ~StartsWith(log[k].request.text, PassagePrefix)

\* C22 witness: an embedding call for a query of several characters.
C22_Witness ==
    /\ CallsOf("embed") # {}
    /\ "query" \in DOMAIN body
    /\ Len(body.query) > 1

\* the invocations of POST the endpoint has not started yet
Unstarted == { k \in 1..Len(Invocations) : Invocations[k].pc = "RECEIVED" }

\* C23: the page has at most one request in flight, and that exactly while
\* isLoading is true; from a state where isLoading is true no step, and so
\* no call of handleExplore with any query, sends a request (the fetch under
\* way stays the one there is, for the same query, and no new invocation
\* reaches the endpoint) or changes the input.
C23_OneRequestAtATime ==
    /\ [](isLoading <=> fetching # Null)
    /\ [][isLoading =>
            /\ fetching' = Null \/ fetching'[1].query = fetching[1].query
            /\ input' = input
            /\ Len(Invocations') <= Len(Invocations)
            /\ Cardinality(Unstarted') <= Cardinality(Unstarted)]_vars

\* C23 witness: a request is in flight, waiting for the generation service,
\* while the invocation of an earlier request, whose fetch was rejected,
\* has not returned; the input is empty.
C23_Witness ==
    /\ isLoading
    /\ AwaitingFetch
    /\ fetching[1].slot = 0
    /\ pending = {"generate"}
    /\ Len(others) = 1
    /\ others[1].pc = "SEARCHING"
    /\ input = <<>>

\* C24: after every request started by handleExplore, completed or failed,
\* isLoading eventually returns to false; and whenever it is false, also
\* after failures, a non-empty query in the input can be submitted and is
\* sent.
C24_LoadingEnds ==
    /\ (isLoading ~> ~isLoading)
    /\ []((~isLoading /\ ~TrimsToEmpty(input))
            => ENABLED (Submit /\ isLoading' /\ AwaitingFetch'
                               /\ fetching'[1].query = input
                               /\ Served'.pc = "RECEIVED"
                               /\ Served'.body.query = input))

\* C24 witness: a request has failed, isLoading is false again and a
\* non-empty query is in the input.
C24_Witness ==
    /\ console # <<>>
    /\ ~isLoading
    /\ ~TrimsToEmpty(input)

\* C25: Clear destroys the exploration records: whenever there are
\* explorations, however many and whichever is expanded, Clear can be
\* clicked, and it sets explorations to the empty list and expandedId to
\* null; no other step removes an exploration.
C25_ClearDestroys ==
    /\ [](Len(explorations) > 0 =>
            ENABLED (Clear /\ explorations' = <<>> /\ expandedId' = Null))
    /\ [][(Clear \/ Len(explorations') < Len(explorations))
            => (explorations' = <<>> /\ expandedId' = Null)]_vars

\* C25 witness: an exploration was created by a successful query, no
\* request has failed, and the list is empty again with nothing expanded.
C25_Witness ==
    /\ now > 0
    /\ ~isLoading
    /\ console = <<>>
    /\ explorations = <<>>
    /\ expandedId = Null

\* C26: expandedId is null or the id of an exploration in the list, after
\* any successful and failed queries, header clicks and Clear; a successful
\* query puts its exploration first, before the earlier ones, and expands
\* it.
C26_ExpandedInList ==
    /\ [](expandedId = Null
            \/ \E k \in 1..Len(explorations) : expandedId = Some(explorations[k].id))
    /\ [][Len(explorations') > Len(explorations)
            => /\ explorations' = <<explorations'[1]>> \o explorations
               /\ explorations'[1].query = fetching[1].query
               /\ expandedId' = Some(explorations'[1].id)]_vars

\* C26 witness: two explorations, the older one expanded by a click on its
\* header.
C26_Witness ==
    /\ Len(explorations) = 2
    /\ expandedId = Some(explorations[2].id)
    /\ explorations[1].id # explorations[2].id

====
